---- MODULE Spec2Model ----
(***************************************************************************)
(* Model of scripts/update_domains.py: the domain normalizer, the          *)
(* retry-aware fetcher, the source cache and one or more runs of update(). *)
(*                                                                         *)
(* Text is modelled as it is in the program: a string is a sequence of     *)
(* code points (ASCII codes; 65533 is U+FFFD, what a percent-decoded byte  *)
(* that is no valid UTF-8 becomes).  None and the empty string, which the  *)
(* code tests alike (`if domain:`), are both the empty sequence.           *)
(***************************************************************************)
EXTENDS Integers, Sequences, FiniteSets, TLC

VARIABLES
    \* ---- files, which outlive a run
    destFile,      \* domains.txt: None when absent, else Some(text)
    cacheFile,     \* data/source_cache.json: url -> entry
    reportFile,    \* reports/latest_update.json: None when absent, else Some(payload)
    statusFile,    \* data/domain_status.json: domain -> record
    \* ---- the environment
    clock,         \* datetime.now(), in ticks
    runs,          \* number of runs of update() started so far
    chunk_size,    \* the chunk_size argument
    config,        \* the items of data/sources.json
    sourcesArg,    \* the sources argument of update(): None, or the items given
    \* ---- one run of update()
    pc,            \* position of update()
    run,           \* the locals of update()
    pool,          \* ThreadPoolExecutor: per pending source its task
    \* ---- one call of _read_source()
    rs,            \* the locals of _read_source() and what it did
    \* ---- one call of _clean_domain()
    nz             \* the argument of _clean_domain() and what it returned

vars == <<destFile, cacheFile, reportFile, statusFile, clock, runs, chunk_size,
          config, sourcesArg, pc, run, pool, rs, nz>>

updateVars == <<destFile, cacheFile, reportFile, statusFile, clock, runs,
                chunk_size, config, sourcesArg, pc, run, pool>>

-----------------------------------------------------------------------------
(* Strings *)

NoneStr == << >>

Range(s) == {s[i] : i \in DOMAIN s}

SubStr(s, i, j) == IF i > j THEN << >> ELSE [k \in 1..(j - i + 1) |-> s[i + k - 1]]

Drop(s, n) == SubStr(s, n + 1, Len(s))

StartsWith(s, p) == Len(s) >= Len(p) /\ SubStr(s, 1, Len(p)) = p

\* the ASCII characters str.isspace() holds of
Whitespace == {9, 10, 11, 12, 13, 28, 29, 30, 31, 32}

\* the characters str.splitlines() breaks a line at
LineBreaks == {10, 11, 12, 13, 28, 29, 30}

\* the index of the first character of s that is in chars (0: there is none)
FirstIn(s, chars) ==
    IF \A i \in DOMAIN s : s[i] \notin chars THEN 0
    ELSE CHOOSE k \in DOMAIN s : s[k] \in chars /\ \A j \in 1..(k - 1) : s[j] \notin chars

\* str.lstrip(chars) / str.rstrip(chars)
RECURSIVE LStripSet(_, _)
LStripSet(s, chars) ==
    IF s # << >> /\ Head(s) \in chars THEN LStripSet(Tail(s), chars) ELSE s

RECURSIVE RStripSet(_, _)
RStripSet(s, chars) ==
    IF s # << >> /\ s[Len(s)] \in chars
    THEN RStripSet(SubStr(s, 1, Len(s) - 1), chars) ELSE s

\* str.strip()
Strip(s) == RStripSet(LStripSet(s, Whitespace), Whitespace)

\* str.split(sep) for a one-character separator: always at least one part
RECURSIVE SplitAt(_, _, _)
SplitOn(s, c) == SplitAt(s, c, FirstIn(s, {c}))
SplitAt(s, c, i) ==
    IF i = 0 THEN <<s>> ELSE <<SubStr(s, 1, i - 1)>> \o SplitOn(Drop(s, i), c)

\* str.split(): on runs of whitespace, no empty parts
RECURSIVE SplitStripped(_, _)
SplitWhitespace(s) ==
    SplitStripped(LStripSet(s, Whitespace), FirstIn(LStripSet(s, Whitespace), Whitespace))
SplitStripped(t, i) ==
    IF t = << >> THEN << >>
    ELSE IF i = 0 THEN <<t>>
    ELSE <<SubStr(t, 1, i - 1)>> \o SplitWhitespace(Drop(t, i))

\* str.splitlines(): a line ends at a line break (CR LF is one break); no
\* empty last line after a final break
RECURSIVE SplitLinesAt(_, _)
SplitLines(s) == SplitLinesAt(s, FirstIn(s, LineBreaks))
SplitLinesAt(s, i) ==
    IF s = << >> THEN << >>
    ELSE IF i = 0 THEN <<s>>
    ELSE <<SubStr(s, 1, i - 1)>>
         \o SplitLines(Drop(s, IF s[i] = 13 /\ i < Len(s) /\ s[i + 1] = 10
                                THEN i + 1 ELSE i))

\* "\n".join(lines) + "\n"
RECURSIVE JoinLines(_)
JoinLines(lines) ==
    IF Len(lines) <= 1 THEN (IF lines = << >> THEN << >> ELSE Head(lines)) \o <<10>>
    ELSE Head(lines) \o <<10>> \o JoinLines(Tail(lines))

\* str.lower()
Lower(s) == [i \in DOMAIN s |-> IF s[i] \in 65..90 THEN s[i] + 32 ELSE s[i]]

\* the order of Python's str comparison: code point by code point
RECURSIVE LexLess(_, _)
LexLess(a, b) ==
    IF b = << >> THEN FALSE
    ELSE IF a = << >> THEN TRUE
    ELSE IF Head(a) # Head(b) THEN Head(a) < Head(b)
    ELSE LexLess(Tail(a), Tail(b))

IsDigit(c) == c \in 48..57
IsHex(c) == c \in 48..57 \/ c \in 65..70 \/ c \in 97..102
HexVal(c) == IF c \in 48..57 THEN c - 48 ELSE IF c \in 65..70 THEN c - 55 ELSE c - 87

\* What one percent-decoded byte becomes under .decode("utf-8", "replace").
\* The model's alphabets hold no hex digit c..f, so a byte >= 128 is a stray
\* continuation byte (0x80..0xBF): U+FFFD.
DecodeByte(b) == IF b < 128 THEN b ELSE 65533

\* urllib.parse.unquote: %XY with two hex digits is decoded, any other % stays
RECURSIVE unquote(_)
unquote(s) ==
    IF s = << >> THEN << >>
    ELSE IF Head(s) = 37 /\ Len(s) >= 3 /\ IsHex(s[2]) /\ IsHex(s[3])
         THEN <<DecodeByte(16 * HexVal(s[2]) + HexVal(s[3]))>> \o unquote(Drop(s, 3))
    ELSE <<Head(s)>> \o unquote(Tail(s))

-----------------------------------------------------------------------------
(* ipaddress.ip_address(str): does the string parse as an IP literal? *)

\* int(octet_str, 10) of a string of ASCII digits
RECURSIVE DecimalValue(_)
DecimalValue(s) ==
    IF s = << >> THEN 0 ELSE 10 * DecimalValue(SubStr(s, 1, Len(s) - 1)) + (s[Len(s)] - 48)

\* IPv4Address._parse_octet: 1..3 ASCII digits, no leading zero, at most 255
IsOctet(s) ==
    /\ s # << >>
    /\ \A i \in DOMAIN s : IsDigit(s[i])
    /\ Len(s) <= 3
    /\ (s = <<48>> \/ s[1] # 48)
    /\ DecimalValue(s) <= 255

FourOctets(octets) == Len(octets) = 4 /\ \A i \in DOMAIN octets : IsOctet(octets[i])

\* IPv4Address(str): no "/", exactly four octets
IsIPv4(s) == s # << >> /\ 47 \notin Range(s) /\ FourOctets(SplitOn(s, 46))

\* IPv6Address._parse_hextet: 1..4 hex digits
IsHextet(s) == s # << >> /\ Len(s) <= 4 /\ \A i \in DOMAIN s : IsHex(s[i])

\* the parts around the one "::" (the empty part number skip): the parts
\* before and after it are hextets, an empty first or last part only next to it
HextetsAround(parts, n, skip, parts_hi, parts_lo) ==
    /\ (parts[1] = << >> => parts_hi = 0)
    /\ (parts[n] = << >> => parts_lo = 0)
    /\ 8 - (parts_hi + parts_lo) >= 1
    /\ \A i \in 1..parts_hi : IsHextet(parts[i])
    /\ \A i \in (n - parts_lo + 1)..n : IsHextet(parts[i])

\* the colon-separated parts, an embedded IPv4 tail already replaced
HextetParts(parts, n, skips) ==
    /\ n <= 9
    /\ Cardinality(skips) <= 1
    /\ IF skips # {}
       THEN HextetsAround(parts, n, CHOOSE i \in skips : TRUE,
                (CHOOSE i \in skips : TRUE) - 1 - (IF parts[1] = << >> THEN 1 ELSE 0),
                n - (CHOOSE i \in skips : TRUE) - (IF parts[n] = << >> THEN 1 ELSE 0))
       ELSE n = 8 /\ \A i \in 1..n : IsHextet(parts[i])

CountedParts(parts) ==
    HextetParts(parts, Len(parts), {i \in 2..(Len(parts) - 1) : parts[i] = << >>})

\* IPv6Address._ip_int_from_string on the parts of split(":"): at least three;
\* a last part with a "." is an IPv4 address and stands for two hextets
ColonParts(raw) ==
    /\ Len(raw) >= 3
    /\ IF 46 \in Range(raw[Len(raw)])
       THEN /\ IsIPv4(raw[Len(raw)])
            /\ CountedParts(SubStr(raw, 1, Len(raw) - 1) \o <<<<48>>, <<48>>>>)
       ELSE CountedParts(raw)

IsIPv6Body(s) == s # << >> /\ ColonParts(SplitOn(s, 58))

\* _split_scope_id: one "%" with a non-empty scope after it
ScopedParts(halves) == Len(halves) = 2 /\ halves[2] # << >> /\ IsIPv6Body(halves[1])

\* IPv6Address(str): no "/", an optional %scope
IsIPv6(s) ==
    /\ 47 \notin Range(s)
    /\ IF 37 \in Range(s) THEN ScopedParts(SplitOn(s, 37)) ELSE IsIPv6Body(s)

ip_address(s) == IsIPv4(s) \/ IsIPv6(s)

-----------------------------------------------------------------------------
(* The domain normalizer *)

\* "0.0.0.0", "127.0.0.1", "255.255.255.255", "::", "::1", in this order
_HOST_PREFIXES ==
    << <<48, 46, 48, 46, 48, 46, 48>>,
       <<49, 50, 55, 46, 48, 46, 48, 46, 49>>,
       <<50, 53, 53, 46, 50, 53, 53, 46, 50, 53, 53, 46, 50, 53, 53>>,
       <<58, 58>>,
       <<58, 58, 49>> >>

\* the loop over _HOST_PREFIXES, from prefix number i on
RECURSIVE StripHostPrefixes(_, _)
StripHostPrefixes(domain, i) ==
    IF i > Len(_HOST_PREFIXES) THEN domain
    ELSE IF StartsWith(domain, _HOST_PREFIXES[i])
         THEN StripHostPrefixes(Strip(Drop(domain, Len(_HOST_PREFIXES[i]))), i + 1)
    ELSE StripHostPrefixes(domain, i + 1)

\* _clean_domain, lines 170-177: reject an empty rest, a "#", an IP literal
CleanRest(domain) ==
    IF domain = << >> \/ Head(domain) = 35 THEN NoneStr
    ELSE IF ip_address(domain) THEN NoneStr
    ELSE RStripSet(Lower(domain), {46})

\* _clean_domain, lines 166-169: "*.", leading dots, trailing slashes
CleanMarks(domain) ==
    CleanRest(RStripSet(LStripSet(IF StartsWith(domain, <<42, 46>>)
                                  THEN Drop(domain, 2) ELSE domain, {46}), {47}))

\* _clean_domain, lines 161-165
CleanPrefixes(domain) ==
    IF domain = << >> THEN NoneStr ELSE CleanMarks(StripHostPrefixes(domain, 1))

\* _clean_domain(raw): the normalized domain, or NoneStr
_clean_domain(raw) == CleanPrefixes(Strip(unquote(Head(SplitOn(raw, 35)))))


\* no call of _clean_domain yet
NzIdle ==
    [pc |-> "idle", form |-> "", prefix |-> << >>, d |-> << >>, raw |-> << >>,
     result |-> NoneStr]

\* the domains in normal form the normalizer is called on in the model:
\* "a", "d", "ab", "1a", "z9", "b.c", "m.n", "a1.b", "x-y.z", "c.d.e"
CleanDomains ==
    { <<97>>, <<100>>, <<97, 98>>, <<49, 97>>, <<122, 57>>, <<98, 46, 99>>,
      <<109, 46, 110>>, <<97, 49, 46, 98>>, <<120, 45, 121, 46, 122>>,
      <<99, 46, 100, 46, 101>> }

\* _clean_domain(raw) is called and returns
Called(form, prefix, d, raw) ==
    [pc |-> "called", form |-> form, prefix |-> prefix, d |-> d, raw |-> raw,
     result |-> _clean_domain(raw)]

\* a call on a domain as it is
CleanBare ==
    /\ nz.pc = "idle"
    /\ \E d \in CleanDomains : nz' = Called("bare", << >>, d, d)
    /\ UNCHANGED <<updateVars, rs>>

\* a call on "*." + domain
CleanWildcard ==
    /\ nz.pc = "idle"
    /\ \E d \in CleanDomains : nz' = Called("wildcard", <<42, 46>>, d, <<42, 46>> \o d)
    /\ UNCHANGED <<updateVars, rs>>

\* a call on a host prefix, a space or nothing, and a domain
CleanPrefixed ==
    /\ nz.pc = "idle"
    /\ \E d \in CleanDomains, i \in DOMAIN _HOST_PREFIXES, sep \in {<< >>, <<32>>} :
           nz' = Called("prefixed", _HOST_PREFIXES[i], d, _HOST_PREFIXES[i] \o sep \o d)
    /\ UNCHANGED <<updateVars, rs>>

\* the caller takes the result
CleanDone ==
    /\ nz.pc = "called"
    /\ nz' = NzIdle
    /\ UNCHANGED <<updateVars, rs>>

-----------------------------------------------------------------------------
(* Small helpers on sequences and optional values *)

\* An optional value (None, a missing key or file) is << >>, a present one <<v>>.
None == << >>
Some(v) == <<v>>
IsNone(o) == o = << >>
Get(o) == o[1]

Max(a, b) == IF a >= b THEN a ELSE b
Min(a, b) == IF a <= b THEN a ELSE b

\* _unique_preserve_order
RECURSIVE _unique_preserve_order(_)
AppendNew(seen, value) == IF value \in Range(seen) THEN seen ELSE Append(seen, value)
_unique_preserve_order(values) ==
    IF values = << >> THEN << >>
    ELSE AppendNew(_unique_preserve_order(SubStr(values, 1, Len(values) - 1)),
                   values[Len(values)])

\* sorted(S) for a set of strings: the element at position i has i - 1
\* smaller elements
SortedStrings(S) ==
    [i \in 1..Cardinality(S) |->
        CHOOSE x \in S : Cardinality({y \in S : LexLess(y, x)}) = i - 1]

\* seq[:n] of Python, also for a negative n (all but the last -n elements)
Slice(seq, n) ==
    IF n >= 0 THEN SubStr(seq, 1, Min(n, Len(seq)))
    ELSE SubStr(seq, 1, Max(0, Len(seq) + n))

EmptyMap == [x \in {} |-> 0]

\* d[k] = v
Put(f, k, v) == [x \in DOMAIN f \cup {k} |-> IF x = k THEN v ELSE f[x]]

\* dict.get(key): None for a missing key
Lookup(f, k) == IF k \in DOMAIN f THEN Some(f[k]) ELSE None

-----------------------------------------------------------------------------
(* The retry-aware fetcher: _retry_delay, _read_source, _fetch *)

MAX_RETRIES == 3
MAX_PARALLEL_FETCHES == 4
RETRYABLE_STATUS == {429, 500, 502, 503, 504}

\* largest numeric Retry-After value a server sends in the model
MaxRetryAfter == 3

\* HTTP error statuses a server answers with in the model
StatusCodes == {404, 429, 503}

\* The Retry-After header of an HTTP error: absent, not a number (an HTTP
\* date), or a number.
RetryAfterHeaders ==
    {[present |-> FALSE, text |-> "", value |-> 0],
     [present |-> TRUE, text |-> "date", value |-> 0]}
    \cup {[present |-> TRUE, text |-> "number", value |-> v] : v \in 0..MaxRetryAfter}

\* What one urlopen(...).read() ends with: the body, or the exception raised.
\* ConnectionResetError and TimeoutError are what the socket raises while the
\* response is awaited or read; they are OSErrors, not URLErrors.
Outcome(kind, code, retry_after) ==
    [kind |-> kind, code |-> code, retry_after |-> retry_after]
NoHeader == [present |-> FALSE, text |-> "", value |-> 0]
HTTPErrors == {Outcome("HTTPError", c, h) : c \in StatusCodes, h \in RetryAfterHeaders}
CaughtTransportErrors == {Outcome(k, 0, NoHeader) : k \in {"URLError", "IncompleteRead"}}
OtherErrors == {Outcome(k, 0, NoHeader) : k \in {"ConnectionResetError", "TimeoutError"}}
Success == Outcome("ok", 200, NoHeader)

\* the text bodies a feed serves in the model
FeedBodies ==
    { << >>,                                                    \* ""
      <<99, 10, 97, 10>>,                                       \* "c\na\n"
      <<35, 120, 10, 48, 46, 48, 46, 48, 46, 48, 32, 98, 10, 66, 10>> }
                                                  \* "#x\n0.0.0.0 b\nB\n"

\* a delay that leaves the Retry-After header unread
BackoffOnly(base_delay, error) == base_delay

\* _retry_delay(base_delay, error)
_retry_delay(base_delay, error) ==
    IF error.retry_after.present /\ error.retry_after.text = "number"
    THEN Max(error.retry_after.value, base_delay)
    ELSE base_delay

\* raw = parts[1] if len(parts) > 1 else parts[0]
RawToken(parts) == IF Len(parts) > 1 THEN parts[2] ELSE parts[1]

Collect(domain, rest) == IF domain # NoneStr THEN <<domain>> \o rest ELSE rest

\* the loop of _fetch over the lines of a body
RECURSIVE ParseLines(_)
ParseLine(line, rest) ==
    IF line = << >> \/ Head(line) = 35 THEN rest
    ELSE Collect(_clean_domain(RawToken(SplitWhitespace(line))), rest)
ParseLines(lines) ==
    IF lines = << >> THEN << >>
    ELSE ParseLine(Strip(Head(lines)), ParseLines(Tail(lines)))

\* _fetch(source), given what _read_source returned (None or the text)
_fetch(text) ==
    IF IsNone(text) THEN [domains |-> << >>, success |-> FALSE]
    ELSE [domains |-> ParseLines(SplitLines(Get(text))), success |-> TRUE]

\* no call of _read_source yet.  trace: what each attempt ended with;
\* sleeps: the argument of each time.sleep
RsIdle ==
    [pc |-> "idle", attempt |-> 0, delay |-> 0, trace |-> << >>, sleeps |-> << >>,
     result |-> None]

\* _read_source is called: delay = 1.0, the loop starts with attempt 0
ReadSourceCall ==
    /\ rs.pc = "idle"
    /\ rs' = [rs EXCEPT !.pc = "loop", !.attempt = 0, !.delay = 1]
    /\ UNCHANGED <<updateVars, nz>>

\* return resp.read().decode("utf-8", "replace")
HandleSuccess(r, body) ==
    [r EXCEPT !.pc = "returned", !.result = Some(body), !.trace = Append(@, Success)]

AttemptSucceeds ==
    /\ rs.pc = "loop" /\ rs.attempt < MAX_RETRIES
    /\ \E body \in FeedBodies : rs' = HandleSuccess(rs, body)
    /\ UNCHANGED <<updateVars, nz>>

\* time.sleep(delay); delay *= 2; the next attempt
SleepAndRetry(r, delay, error) ==
    [r EXCEPT !.sleeps = Append(@, delay), !.delay = 2 * delay,
              !.attempt = @ + 1, !.trace = Append(@, error)]

ReturnNone(r, error) ==
    [r EXCEPT !.pc = "returned", !.result = None, !.trace = Append(@, error)]

\* a handler that retries after every HTTP error status
RetryAnyStatus(r, error) ==
    IF r.attempt + 1 >= MAX_RETRIES THEN ReturnNone(r, error)
    ELSE SleepAndRetry(r, _retry_delay(r.delay, error), error)

\* except HTTPError as error
HandleHTTPError(r, error) ==
    IF error.code \notin RETRYABLE_STATUS \/ r.attempt + 1 >= MAX_RETRIES
    THEN ReturnNone(r, error)
    ELSE SleepAndRetry(r, _retry_delay(r.delay, error), error)

AttemptHTTPError ==
    /\ rs.pc = "loop" /\ rs.attempt < MAX_RETRIES
    /\ \E error \in HTTPErrors : rs' = HandleHTTPError(rs, error)
    /\ UNCHANGED <<updateVars, nz>>

\* except (URLError, IncompleteRead)
HandleTransportError(r, error) ==
    IF r.attempt + 1 >= MAX_RETRIES THEN ReturnNone(r, error)
    ELSE SleepAndRetry(r, r.delay, error)

AttemptTransportError ==
    /\ rs.pc = "loop" /\ rs.attempt < MAX_RETRIES
    /\ \E error \in CaughtTransportErrors : rs' = HandleTransportError(rs, error)
    /\ UNCHANGED <<updateVars, nz>>

\* an exception no except clause names leaves _read_source
HandleOtherError(r, error) == [r EXCEPT !.pc = "raised", !.trace = Append(@, error)]

AttemptOtherError ==
    /\ rs.pc = "loop" /\ rs.attempt < MAX_RETRIES
    /\ \E error \in OtherErrors : rs' = HandleOtherError(rs, error)
    /\ UNCHANGED <<updateVars, nz>>

-----------------------------------------------------------------------------
(* Sources, the source cache, freshness and SLA *)

\* ticks of the clock in one day (timestamps are finer than days)
TicksPerDay == 2

\* the latest time a run starts at in the model
MaxClock == 3

\* the number of runs of update() in the model
MaxRuns == 2

\* the largest chunk_size in the model
MaxChunk == 2

\* an item of data/sources.json; its name is its url
Item(url, weight, trust, interval, sla_days, auto_disable_on_sla, enabled) ==
    [url |-> url, weight |-> weight, trust |-> trust,
     update_interval_days |-> interval, sla_days |-> sla_days,
     auto_disable_on_sla |-> auto_disable_on_sla, enabled |-> enabled]

\* The configuration files of the model.  weight and trust are the floats
\* 0.0, 1.0, 2.0.
ConfigFiles ==
    { << Item("u1", 2, 1, 1, None, FALSE, TRUE),
         Item("u2", 1, 2, 0, Some(0), TRUE, TRUE),
         Item("u3", 2, 1, 1, None, FALSE, FALSE) >>,
      << Item("u1", 1, 1, 1, Some(1), FALSE, TRUE),
         Item("u2", 1, 1, 2, None, FALSE, TRUE) >>,
      << Item("u3", 2, 1, 1, None, FALSE, FALSE) >> }

\* _load_sources: one SourceConfig per item, trust clamped to 0..1, the
\* interval and the SLA to at least one day
LoadItem(item) ==
    [name |-> item.url, url |-> item.url, weight |-> item.weight,
     trust |-> Max(0, Min(1, item.trust)),
     update_interval_days |-> Max(1, item.update_interval_days),
     sla_days |-> IF IsNone(item.sla_days) THEN None ELSE Some(Max(1, Get(item.sla_days))),
     auto_disable_on_sla |-> item.auto_disable_on_sla,
     enabled |-> item.enabled]

_load_sources(items) == [i \in DOMAIN items |-> LoadItem(items[i])]

\* a cache entry; fetched_at, last_success_at are optional, status is
\* "ok", "error" or "" (no status key)
Entry(domains, fetched_at, last_success_at, status) ==
    [domains |-> domains, fetched_at |-> fetched_at,
     last_success_at |-> last_success_at, status |-> status]

\* The source cache files a run starts from in the model.  "a" is <<97>>.
InitCaches ==
    { EmptyMap,
      \* as a cache written by hand or by an older version: no status, duplicates
      [u \in {"u1"} |-> Entry(<< <<100>>, <<100>> >>, Some(0), None, "")],
      [u \in {"u1", "u2"} |->
          IF u = "u1" THEN Entry(<< <<97>> >>, Some(0), Some(0), "ok")
          ELSE Entry(<< <<98>>, <<100>> >>, Some(1), Some(1), "ok")],
      [u \in {"u1", "u2"} |->
          IF u = "u1" THEN Entry(<< <<100>> >>, Some(1), Some(0), "error")
          ELSE Entry(<< <<98>> >>, None, None, "stale")],
      \* an "ok" entry without last_success_at
      [u \in {"u2"} |-> Entry(<< <<98>>, <<99>> >>, Some(2), None, "ok")] }

\* the status key as the cache file keeps it: "ok", "error" or none
KeptStatus(status) == IF status \in {"ok", "error"} THEN status ELSE ""

\* _load_source_cache: a status other than "ok" and "error" is dropped
_load_source_cache(file) ==
    [u \in DOMAIN file |-> [file[u] EXCEPT !.status = KeptStatus(@)]]

\* a store that leaves out the entries without domains
StoreNonEmpty(data) ==
    [u \in {v \in DOMAIN data : data[v].domains # << >>} |->
        [data[u] EXCEPT !.domains = _unique_preserve_order(@),
                        !.status = KeptStatus(@)]]

\* _store_source_cache: the domains are deduplicated, a status other than
\* "ok" and "error" is dropped
_store_source_cache(data) ==
    [u \in DOMAIN data |->
        [data[u] EXCEPT !.domains = _unique_preserve_order(@),
                        !.status = KeptStatus(@)]]

\* a freshness test with ttl = timedelta(days=1), whatever the source's interval
FreshForOneDay(source, cache_entry, now) ==
    IF cache_entry.status = "error" THEN FALSE
    ELSE IF IsNone(cache_entry.fetched_at) THEN FALSE
    ELSE Get(cache_entry.fetched_at) + TicksPerDay > now

\* _cache_is_fresh(source, cache_entry, now)
_cache_is_fresh(source, cache_entry, now) ==
    IF cache_entry.status = "error" THEN FALSE
    ELSE IF IsNone(cache_entry.fetched_at) THEN FALSE
    ELSE Get(cache_entry.fetched_at) + Max(1, source.update_interval_days) * TicksPerDay > now

\* a last success read from last_success_at alone
LastSuccessAtOnly(e) == e.last_success_at

\* _sla_missed, lines 340-342: last_success_at, or fetched_at of an "ok" entry
LastSuccess(e) ==
    IF IsNone(e.last_success_at) /\ e.status = "ok" THEN e.fetched_at
    ELSE e.last_success_at

\* _sla_missed, lines 343-345
SlaOverdue(last_success, sla_days, now) ==
    IF IsNone(last_success) THEN TRUE
    ELSE Get(last_success) + sla_days * TicksPerDay < now

\* _sla_missed(source, cache_entry, now); cache_entry is optional
_sla_missed(source, cache_entry, now) ==
    IF IsNone(source.sla_days) THEN FALSE
    ELSE IF IsNone(cache_entry) THEN TRUE
    ELSE SlaOverdue(LastSuccess(Get(cache_entry)), Get(source.sla_days), now)

-----------------------------------------------------------------------------
(* update(): reading the list file, ranking, the report, the ledger *)

\* The list files a run starts from in the model (None: no file yet).
InitFiles ==
    { None,
      Some(<<97, 10, 100, 10>>),                                 \* "a\nd\n"
      Some(<<66, 10, 98, 10, 10, 49, 46, 49, 46, 49, 46, 49, 10>>),
                                                      \* "B\nb\n\n1.1.1.1\n"
      Some(<<98, 37, 48, 65, 97, 10>>),                          \* "b%0Aa\n"
      Some(<<100, 10, 97>>),                                     \* "d\na"
      Some(<<42, 46, 42, 46, 97, 10, 49, 46, 49, 46, 49, 46, 49, 46, 10>>) }
                                                      \* "*.*.a\n1.1.1.1.\n"

\* what the loop over the list file keeps (update, lines 416-424)
NoLines ==
    [existing |-> {}, needs_rewrite |-> FALSE, normalized_total |-> 0,
     duplicate_count |-> 0, invalid_total |-> 0]

\* lines 432-435: the line was not in normal form
NoteNormalized(acc, stripped, domain) ==
    IF domain # stripped
    THEN [acc EXCEPT !.normalized_total = @ + 1, !.needs_rewrite = TRUE]
    ELSE acc

\* lines 436-442: a duplicate, or a new domain of existing
NoteDomain(acc, domain) ==
    IF domain \in acc.existing
    THEN [acc EXCEPT !.duplicate_count = @ + 1, !.needs_rewrite = TRUE]
    ELSE [acc EXCEPT !.existing = @ \cup {domain}]

\* lines 427-446: one line of the list file
ReadLine(acc, stripped, domain) ==
    IF stripped = << >> THEN acc
    ELSE IF domain # NoneStr
    THEN NoteDomain(NoteNormalized(acc, stripped, domain), domain)
    ELSE [acc EXCEPT !.invalid_total = @ + 1, !.needs_rewrite = TRUE]

\* the loop over the lines of the list file (update, lines 425-446)
\* (no count is negative: the test has TLC evaluate acc at every line)
RECURSIVE ReadLines(_, _)
ReadLines(lines, acc) ==
    IF lines = << >> \/ acc.invalid_total < 0 THEN acc
    ELSE ReadLines(Tail(lines),
                   ReadLine(acc, Strip(Head(lines)), _clean_domain(Strip(Head(lines)))))

ReadDest(file) ==
    IF IsNone(file) THEN NoLines ELSE ReadLines(SplitLines(Get(file)), NoLines)

UrlsOf(results) == [i \in DOMAIN results |-> results[i].url]

\* the reverse index built from cached_results (update, lines 497-502):
\* per domain the urls of the sources holding it, in the order of cached_results
Holders(cached_results, domain) ==
    LET has(cr) == domain \in Range(cr.domains)
    IN  UrlsOf(SelectSeq(cached_results, has))

Fetched(cached_results) ==
    UNION {Range(cached_results[i].domains) : i \in DOMAIN cached_results}

DomainSources(cached_results) ==
    [d \in Fetched(cached_results) |-> Holders(cached_results, d)]

SourceByUrl(sources, url) ==
    sources[CHOOSE i \in DOMAIN sources : sources[i].url = url]

SourceScore(src) == src.weight * src.trust

MaxOf(vals) == CHOOSE v \in vals : \A w \in vals : w <= v

\* max(src.weight * src.trust for src in domain_sources.get(item, []), default=0.0)
Score(sources, domain_sources, item) ==
    IF item \notin DOMAIN domain_sources \/ domain_sources[item] = << >> THEN 0
    ELSE MaxOf({SourceScore(SourceByUrl(sources, u)) : u \in Range(domain_sources[item])})

\* a sort that leaves the score out of the key: key=lambda item: item
KeyByNameOnly(sx, x, sy, y) == LexLess(x, y)

\* the sort key (-score, item)
KeyLess(sx, x, sy, y) == sx > sy \/ (sx = sy /\ LexLess(x, y))

\* x comes before y in sorted(new_candidates, key=...)
Outranks(sources, domain_sources, x, y) ==
    KeyLess(Score(sources, domain_sources, x), x, Score(sources, domain_sources, y), y)

\* sorted(new_candidates, key=lambda item: (-score, item))
Scored(sources, domain_sources, new_candidates) ==
    [i \in 1..Cardinality(new_candidates) |->
        CHOOSE x \in new_candidates :
            Cardinality({y \in new_candidates :
                            Outranks(sources, domain_sources, y, x)}) = i - 1]

\* new_domains = scored[:chunk_size]
NewDomains(scored, n) == Slice(scored, n)

\* merged = sorted(existing | set(new_domains))
Merged(existing, new_domains) == SortedStrings(existing \cup Range(new_domains))

\* dest.write_text("\n".join(merged) + "\n")
ListText(merged) == JoinLines(merged)

\* the order of the source names "u1" < ... < "u5" as Python compares them
NameRank(name) == CHOOSE i \in 1..5 : <<"u1", "u2", "u3", "u4", "u5">>[i] = name
NameLess(a, b) == NameRank(a) < NameRank(b)

\* sorted({src.name for src in domain_sources[domain]})
SortedNames(S) ==
    [i \in 1..Cardinality(S) |->
        CHOOSE x \in S : Cardinality({y \in S : NameLess(y, x)}) = i - 1]

\* status = "never-fetched", or str(cache_entry.get("status", "unknown"))
HealthStatus(cache_entry) ==
    IF IsNone(cache_entry) THEN "never-fetched"
    ELSE IF Get(cache_entry).status = "" THEN "unknown"
    ELSE Get(cache_entry).status

\* _describe_source_health(source, cache.get(source.url), now, auto_disabled)
_describe_source_health(source, cache_entry, now, auto_disabled) ==
    [name |-> source.name, url |-> source.url,
     status |-> HealthStatus(cache_entry),
     trust |-> source.trust, sla_days |-> source.sla_days,
     auto_disabled |-> auto_disabled,
     fetched_at |-> IF IsNone(cache_entry) THEN None ELSE Get(cache_entry).fetched_at,
     last_success_at |-> IF IsNone(cache_entry) THEN None
                         ELSE Get(cache_entry).last_success_at,
     sla_breached |-> _sla_missed(source, cache_entry, now)]

SkippedInfo(src) ==
    [name |-> src.name, url |-> src.url, reason |-> "sla_missed",
     sla_days |-> src.sla_days, trust |-> src.trust]

\* the payload _write_report builds from the locals r of update(); a key the
\* code leaves out when its value is empty or false holds that value here
_write_report(r, timestamp) ==
    [generated_at |-> timestamp,
     added |-> r.new_domains,
     total_after_update |-> Len(r.merged),
     sources |-> [i \in DOMAIN r.active |-> r.active[i].name],
     normalized |-> r.normalized_total,
     duplicates_removed |-> r.duplicate_count,
     invalid_lines |-> r.invalid_total,
     stale_candidates |-> Slice(SortedStrings(r.existing \ r.fetched), 50),
     skipped_sources |-> [i \in DOMAIN r.skipped |-> SkippedInfo(r.skipped[i])],
     source_health |->
         [i \in DOMAIN r.configured |->
             _describe_source_health(
                 r.configured[i], Lookup(r.cache, r.configured[i].url), r.now,
                 \E j \in DOMAIN r.skipped : r.skipped[j] = r.configured[i])],
     fetch_errors |-> r.had_fetch_errors]

\* a record of the ledger; sources and removed_at are optional
Record(first_seen, last_seen, status, sources, removed_at) ==
    [first_seen |-> first_seen, last_seen |-> last_seen, status |-> status,
     sources |-> sources, removed_at |-> removed_at]

\* The ledgers a run starts from in the model: none, or the ledger of a
\* list "a", "d" from which "c" was taken out by hand before time 0.
InitLedgers ==
    { EmptyMap,
      [d \in {<<97>>, <<99>>, <<100>>} |->
          IF d = <<97>> THEN Record(0, 0, "active", Some(<<"u1">>), None)
          ELSE IF d = <<99>> THEN Record(0, 0, "removed", Some(<<"u1">>), Some(0))
          ELSE Record(0, 0, "stale", None, None)] }

\* a record written anew for a domain a source holds: "first_seen": timestamp
LedgerActiveAnew(old, names, timestamp) ==
    [first_seen |-> timestamp,
     last_seen |-> timestamp, status |-> "active", sources |-> Some(names),
     removed_at |-> IF IsNone(old) THEN None ELSE Get(old).removed_at]

\* a domain of merged that a source holds (_update_status, lines 769-774)
LedgerActive(old, names, timestamp) ==
    [first_seen |-> IF IsNone(old) THEN timestamp ELSE Get(old).first_seen,
     last_seen |-> timestamp, status |-> "active", sources |-> Some(names),
     removed_at |-> IF IsNone(old) THEN None ELSE Get(old).removed_at]

\* a record that keeps the status it has: info.setdefault("status", "stale")
LedgerStaleIfNew(old, timestamp) ==
    IF IsNone(old)
    THEN [first_seen |-> timestamp, last_seen |-> timestamp, status |-> "stale",
          sources |-> None, removed_at |-> None]
    ELSE Get(old)

\* a domain of merged that no source holds (lines 769-770, 775-777)
LedgerStale(old, timestamp) ==
    IF IsNone(old)
    THEN [first_seen |-> timestamp, last_seen |-> timestamp, status |-> "stale",
          sources |-> None, removed_at |-> None]
    ELSE [Get(old) EXCEPT !.status = "stale"]

\* a recorded domain that is not in merged (lines 780-785)
LedgerRemoved(old, timestamp) ==
    [old EXCEPT !.status = "removed", !.removed_at = Some(timestamp)]

\* _update_status(status_path, merged, domain_sources)
_update_status(status_data, merged, domain_sources, timestamp) ==
    [d \in DOMAIN status_data \cup Range(merged) |->
        IF d \in Range(merged)
        THEN IF d \in DOMAIN domain_sources
             THEN LedgerActive(Lookup(status_data, d),
                               SortedNames(Range(domain_sources[d])), timestamp)
             ELSE LedgerStale(Lookup(status_data, d), timestamp)
        ELSE LedgerRemoved(status_data[d], timestamp)]

-----------------------------------------------------------------------------
(* update(): the run as a sequence of steps *)

\* the locals of update() before a run; loaded: the cache as
\* _load_source_cache returned it; passed: the sources _fetch was called on;
\* writes: the files written so far, in order
RunIdle ==
    [outcome |-> "none", now |-> 0, configured |-> << >>, existing |-> {},
     needs_rewrite |-> FALSE, normalized_total |-> 0, duplicate_count |-> 0,
     invalid_total |-> 0, loaded |-> EmptyMap, cache |-> EmptyMap, active |-> << >>, skipped |-> << >>,
     pending |-> << >>, cached_results |-> << >>, had_fetch_errors |-> FALSE,
     next |-> 1, passed |-> {}, fetched |-> {}, domain_sources |-> EmptyMap,
     new_domains |-> << >>, merged |-> << >>, writes |-> << >>]

\* lines 403-414: the enabled sources of the configuration file
\* an item of the sources argument: a url, or a SourceConfig
Url(url) == [kind |-> "str", url |-> url]

Given(src) == [kind |-> "SourceConfig", src |-> src]

\* SourceConfig(name=url, url=url): the defaults of the class
SourceConfig(url) ==
    [name |-> url, url |-> url, weight |-> 1, trust |-> 1,
     update_interval_days |-> 1, sla_days |-> None,
     auto_disable_on_sla |-> FALSE, enabled |-> TRUE]

\* the sources arguments of the model: none, a SourceConfig that is not
\* enabled, a url
SourceArguments ==
    { None,
      Some(<< Given([SourceConfig("u3") EXCEPT !.enabled = FALSE]) >>),
      Some(<< Url("u1") >>) }

\* lines 407-411
FromArgument(item) ==
    IF item.kind = "SourceConfig" THEN item.src ELSE SourceConfig(item.url)

\* lines 403-411: the enabled sources of the configuration file, or the
\* sources given
ConfiguredSources(given, items) ==
    IF IsNone(given)
    THEN LET enabled(src) == src.enabled IN SelectSeq(_load_sources(items), enabled)
    ELSE [i \in DOMAIN Get(given) |-> FromArgument(Get(given)[i])]

\* line 456: skipped for a missed SLA
SlaSkipped(src, cache, now) ==
    src.auto_disable_on_sla /\ _sla_missed(src, Lookup(cache, src.url), now)

\* a partition that keeps every configured source active
EverySourceActive(configured, cache, now) == configured

\* lines 452-459
ActiveSources(configured, cache, now) ==
    LET keep(src) == ~SlaSkipped(src, cache, now) IN SelectSeq(configured, keep)

SkippedSources(configured, cache, now) ==
    LET skip(src) == SlaSkipped(src, cache, now) IN SelectSeq(configured, skip)

\* line 468: cached and _cache_is_fresh(source, cached, now=now)
UsesCache(src, cache, now) ==
    src.url \in DOMAIN cache /\ _cache_is_fresh(src, cache[src.url], now)

\* a partition that appends every active source to pending_fetch (no continue)
PendingWithoutContinue(active, cache, now) == active

\* lines 466-474
PendingFetch(active, cache, now) ==
    LET stale(src) == ~UsesCache(src, cache, now) IN SelectSeq(active, stale)

FreshSources(active, cache, now) ==
    LET fresh(src) == UsesCache(src, cache, now) IN SelectSeq(active, fresh)

CachedResults(fresh, cache) ==
    [i \in DOMAIN fresh |->
        [url |-> fresh[i].url,
         domains |-> _unique_preserve_order(cache[fresh[i].url].domains)]]

\* update(), lines 448-474, on the sources, the cache and the clock
Partition(r, configured, cache, now) ==
    [r EXCEPT
        !.outcome = IF configured = << >> THEN "no_sources" ELSE "running",
        !.now = now,
        !.configured = configured,
        !.loaded = cache,
        !.cache = cache,
        !.active = ActiveSources(configured, cache, now),
        !.skipped = SkippedSources(configured, cache, now),
        !.pending = PendingFetch(ActiveSources(configured, cache, now), cache, now),
        !.cached_results =
            CachedResults(FreshSources(ActiveSources(configured, cache, now), cache, now),
                          cache)]

\* update(), lines 416-446, on what the list file holds
WithDest(r, rd) ==
    [r EXCEPT !.existing = rd.existing, !.needs_rewrite = rd.needs_rewrite,
              !.normalized_total = rd.normalized_total,
              !.duplicate_count = rd.duplicate_count,
              !.invalid_total = rd.invalid_total]

\* update(), lines 403-474: the sources, the list file, the cache, the clock,
\* the SLA partition and the freshness partition
BeginRun(now) ==
    Partition(WithDest(RunIdle, ReadDest(destFile)), ConfiguredSources(sourcesArg, config),
              _load_source_cache(cacheFile), now)

\* pool.map(_fetch, pending_fetch): one queued task per pending source
Submit(pending) ==
    [i \in DOMAIN pending |->
        [url |-> pending[i].url, state |-> "queued", raised |-> FALSE,
         domains |-> << >>, success |-> FALSE]]

Started(r) ==
    /\ run' = r
    /\ pool' = IF r.outcome = "no_sources" THEN << >> ELSE Submit(r.pending)
    /\ pc' = IF r.outcome = "no_sources" THEN "idle"
             ELSE IF r.pending = << >> THEN "merge" ELSE "fetching"

UpdateBegin ==
    /\ pc = "idle" /\ runs < MaxRuns
    /\ \E now \in clock..MaxClock : clock' = now /\ Started(BeginRun(now))
    /\ runs' = runs + 1
    /\ UNCHANGED <<destFile, cacheFile, reportFile, statusFile, chunk_size, config, sourcesArg, rs, nz>>

Running == {i \in DOMAIN pool : pool[i].state = "running"}

\* a pool with a worker for every pending source
WorkerPerSource == Max(1, Len(run.pending))

\* max_workers = max(1, min(MAX_PARALLEL_FETCHES, len(pending_fetch)))
max_workers == Max(1, Min(MAX_PARALLEL_FETCHES, Len(run.pending)))

\* a free worker thread takes the first queued task and calls _fetch on it
WorkerStart ==
    /\ pc = "fetching"
    /\ Cardinality(Running) < max_workers
    /\ \E i \in DOMAIN pool :
         /\ pool[i].state = "queued"
         /\ \A j \in 1..(i - 1) : pool[j].state # "queued"
         /\ pool' = [pool EXCEPT ![i].state = "running"]
         /\ run' = [run EXCEPT !.passed = @ \cup {pool[i].url}]
    /\ UNCHANGED <<destFile, cacheFile, reportFile, statusFile, clock, runs,
                   chunk_size, config, sourcesArg, pc, rs, nz>>

Returned(task, result) ==
    [task EXCEPT !.state = "done", !.domains = result.domains,
                 !.success = result.success]

\* _fetch returns: _read_source gave the text of a body, or None
FetchReturns ==
    /\ pc \in {"fetching", "unwinding"}
    /\ \E i \in Running, text \in {None} \cup {Some(b) : b \in FeedBodies} :
         pool' = [pool EXCEPT ![i] = Returned(@, _fetch(text))]
    /\ UNCHANGED <<destFile, cacheFile, reportFile, statusFile, clock, runs,
                   chunk_size, config, sourcesArg, pc, run, rs, nz>>

\* _fetch raises: _read_source let an exception through
FetchRaises ==
    /\ pc \in {"fetching", "unwinding"}
    /\ \E i \in Running : pool' = [pool EXCEPT ![i].state = "done", ![i].raised = TRUE]
    /\ UNCHANGED <<destFile, cacheFile, reportFile, statusFile, clock, runs,
                   chunk_size, config, sourcesArg, pc, run, rs, nz>>

\* an entry built from the result alone: "domains": deduplicated, and the
\* last success taken over only from a successful fetch
EntryFromResultOnly(task, deduplicated, previous, now) ==
    [domains |-> deduplicated,
     fetched_at |-> Some(now),
     status |-> IF task.success THEN "ok" ELSE "error",
     last_success_at |-> IF task.success THEN Some(now) ELSE None]

\* the cache entry of a fetched source (update, lines 481-494)
FetchedEntry(task, deduplicated, previous, now) ==
    [domains |-> IF task.success THEN deduplicated
                 ELSE IF IsNone(previous) THEN << >> ELSE Get(previous).domains,
     fetched_at |-> Some(now),
     status |-> IF task.success THEN "ok" ELSE "error",
     last_success_at |-> IF task.success THEN Some(now)
                         ELSE IF IsNone(previous) THEN None
                         ELSE Get(previous).last_success_at]

\* a loop body that puts the result in front of the results so far
ConsumedInFront(r, task, deduplicated, entry) ==
    [r EXCEPT
        !.cache = Put(@, task.url, entry),
        !.cached_results =
            IF task.success
            THEN <<[url |-> task.url, domains |-> deduplicated]>> \o @ ELSE @,
        !.had_fetch_errors = IF task.success THEN @ ELSE TRUE,
        !.next = @ + 1]

Consumed(r, task, deduplicated, entry) ==
    [r EXCEPT
        !.cache = Put(@, task.url, entry),
        !.cached_results =
            IF task.success
            THEN Append(@, [url |-> task.url, domains |-> deduplicated]) ELSE @,
        !.had_fetch_errors = IF task.success THEN @ ELSE TRUE,
        !.next = @ + 1]

\* the body of the loop over pool.map's results (update, lines 480-495)
Consume(r, task) ==
    Consumed(r, task, _unique_preserve_order(task.domains),
             FetchedEntry(task, _unique_preserve_order(task.domains),
                          Lookup(r.cache, task.url), r.now))

\* the main thread takes the next result, in the order of pending_fetch
ConsumeResult ==
    /\ pc = "fetching"
    /\ run.next \in DOMAIN pool
    /\ pool[run.next].state = "done" /\ ~pool[run.next].raised
    /\ run' = Consume(run, pool[run.next])
    /\ pc' = IF run.next = Len(pool) THEN "merge" ELSE "fetching"
    /\ UNCHANGED <<destFile, cacheFile, reportFile, statusFile, clock, runs,
                   chunk_size, config, sourcesArg, pool, rs, nz>>

Cancelled(task) == IF task.state = "queued" THEN [task EXCEPT !.state = "cancelled"] ELSE task

\* the next result is an exception: it is raised in the main thread, the
\* tasks not yet started are cancelled, and the executor waits for the rest
ConsumeRaises ==
    /\ pc = "fetching"
    /\ run.next \in DOMAIN pool
    /\ pool[run.next].state = "done" /\ pool[run.next].raised
    /\ pool' = [i \in DOMAIN pool |-> Cancelled(pool[i])]
    /\ pc' = "unwinding"
    /\ UNCHANGED <<destFile, cacheFile, reportFile, statusFile, clock, runs,
                   chunk_size, config, sourcesArg, run, rs, nz>>

\* every running task is over: the exception leaves update()
UpdateAborts ==
    /\ pc = "unwinding"
    /\ Running = {}
    /\ pc' = "idle"
    /\ run' = [run EXCEPT !.outcome = "aborted"]
    /\ UNCHANGED <<destFile, cacheFile, reportFile, statusFile, clock, runs,
                   chunk_size, config, sourcesArg, pool, rs, nz>>

\* update(), lines 497-504: the reverse index, then the cache is stored
StoreCache ==
    /\ pc = "merge"
    /\ run' = [run EXCEPT !.fetched = Fetched(run.cached_results),
                          !.domain_sources = DomainSources(run.cached_results),
                          !.writes = Append(@, "cache")]
    /\ cacheFile' = _store_source_cache(run.cache)
    /\ pc' = "rank"
    /\ UNCHANGED <<destFile, reportFile, statusFile, clock, runs, chunk_size,
                   config, sourcesArg, pool, rs, nz>>

\* lines 518-525: return early, or merge and say whether the list is written
Decided(r, new_domains, needs_rewrite, returns) ==
    [r EXCEPT !.new_domains = new_domains,
              !.needs_rewrite = needs_rewrite,
              !.outcome = IF returns THEN "unchanged" ELSE @,
              !.merged = IF returns THEN @ ELSE Merged(r.existing, new_domains),
              !.writes = IF ~returns /\ needs_rewrite THEN Append(@, "list") ELSE @]

\* line 520
ReturnsEarly(r, new_domains) ==
    new_domains = << >> /\ ~r.needs_rewrite /\ r.skipped = << >> /\ ~r.had_fetch_errors

Ranked(r, new_domains) ==
    Decided(r, new_domains, r.needs_rewrite \/ new_domains # << >>,
            ReturnsEarly(r, new_domains))

\* update(), lines 506-521, on the locals r
Rank(r, n) ==
    Ranked(r, NewDomains(Scored(r.configured, r.domain_sources, r.fetched \ r.existing), n))

Written(r) ==
    /\ run' = r
    /\ pc' = IF r.outcome = "unchanged" THEN "idle" ELSE "report"
    /\ destFile' = IF r.outcome # "unchanged" /\ r.needs_rewrite
                   THEN Some(ListText(r.merged)) ELSE destFile

\* update(), lines 506-525: rank, return early or write the list file
RankAndWrite ==
    /\ pc = "rank"
    /\ Written(Rank(run, chunk_size))
    /\ UNCHANGED <<cacheFile, reportFile, statusFile, clock, runs, chunk_size,
                   config, sourcesArg, pool, rs, nz>>

\* update(), lines 527-578: the JSON report (and its Markdown rendering)
WriteReport ==
    /\ pc = "report"
    /\ reportFile' = Some(_write_report(run, clock))
    /\ run' = [run EXCEPT !.writes = Append(@, "report")]
    /\ pc' = "status"
    /\ UNCHANGED <<destFile, cacheFile, statusFile, clock, runs, chunk_size,
                   config, sourcesArg, pool, rs, nz>>

\* update(), lines 579-583: the ledger
UpdateStatus ==
    /\ pc = "status"
    /\ statusFile' = _update_status(statusFile, run.merged, run.domain_sources, clock)
    /\ run' = [run EXCEPT !.writes = Append(@, "status"), !.outcome = "completed"]
    /\ pc' = "idle"
    /\ UNCHANGED <<destFile, cacheFile, reportFile, clock, runs, chunk_size,
                   config, sourcesArg, pool, rs, nz>>

-----------------------------------------------------------------------------
(* Specifications *)

\* runs of update() on one installation
Init ==
    /\ destFile \in InitFiles
    /\ cacheFile \in InitCaches
    /\ reportFile = None
    /\ statusFile \in IF destFile = Some(<<97, 10, 100, 10>>) THEN InitLedgers
                      ELSE {EmptyMap}
    /\ clock = 0
    /\ runs = 0
    /\ chunk_size \in 0..MaxChunk
    /\ config \in ConfigFiles
    /\ sourcesArg \in IF Len(config) = 1 THEN SourceArguments ELSE {None}
    /\ pc = "idle"
    /\ run = RunIdle
    /\ pool = << >>
    /\ rs = RsIdle
    /\ nz = NzIdle

Next ==
    \/ UpdateBegin
    \/ WorkerStart
    \/ FetchReturns
    \/ FetchRaises
    \/ ConsumeResult
    \/ ConsumeRaises
    \/ UpdateAborts
    \/ StoreCache
    \/ RankAndWrite
    \/ WriteReport
    \/ UpdateStatus

Spec == Init /\ [][Next]_vars

\* calls of _read_source, each attempt ending one of the ways urlopen can
FetchInit ==
    /\ destFile = None
    /\ cacheFile = EmptyMap
    /\ reportFile = None
    /\ statusFile = EmptyMap
    /\ clock = 0
    /\ runs = 0
    /\ chunk_size = 0
    /\ config = << >>
    /\ sourcesArg = None
    /\ pc = "idle"
    /\ run = RunIdle
    /\ pool = << >>
    /\ rs = RsIdle
    /\ nz = NzIdle

FetchNext ==
    \/ ReadSourceCall
    \/ AttemptSucceeds
    \/ AttemptHTTPError
    \/ AttemptTransportError
    \/ AttemptOtherError

\* a configuration with more sources than MAX_PARALLEL_FETCHES
PoolSources ==
    << Item("u1", 1, 1, 1, None, FALSE, TRUE),
       Item("u2", 1, 1, 1, None, FALSE, TRUE),
       Item("u3", 1, 1, 1, None, FALSE, TRUE),
       Item("u4", 1, 1, 1, None, FALSE, TRUE),
       Item("u5", 1, 1, 1, None, FALSE, TRUE) >>

\* a run of update() on a new installation with that configuration
PoolInit ==
    /\ destFile = None
    /\ cacheFile = EmptyMap
    /\ reportFile = None
    /\ statusFile = EmptyMap
    /\ clock = 0
    /\ runs = MaxRuns - 1          \* one run is followed
    /\ chunk_size = 1
    /\ config = PoolSources
    /\ sourcesArg = None
    /\ pc = "idle"
    /\ run = RunIdle
    /\ pool = << >>
    /\ rs = RsIdle
    /\ nz = NzIdle

PoolSpec == PoolInit /\ [][Next]_vars

\* a list file of 51 domains in canonical form: "aa", ..., "az", "ba", ..., "by"
LongList ==
    Some(JoinLines([i \in 1..51 |-> <<97 + ((i - 1) \div 26), 97 + ((i - 1) % 26)>>]))

\* a run of update() on an installation with that list
LongListInit ==
    /\ destFile = LongList
    /\ cacheFile = EmptyMap
    /\ reportFile = None
    /\ statusFile = EmptyMap
    /\ clock = 0
    /\ runs = MaxRuns - 1          \* one run is followed
    /\ chunk_size \in 0..MaxChunk
    /\ config \in ConfigFiles
    /\ sourcesArg = None
    /\ pc = "idle"
    /\ run = RunIdle
    /\ pool = << >>
    /\ rs = RsIdle
    /\ nz = NzIdle

LongListSpec == LongListInit /\ [][Next]_vars

\* a run of update() with a chunk size that is not positive (--chunk-size
\* takes any integer)
ChunkInit ==
    /\ destFile \in {None, Some(<<97, 10, 100, 10>>)}
    /\ cacheFile \in InitCaches
    /\ reportFile = None
    /\ statusFile = EmptyMap
    /\ clock = 0
    /\ runs = MaxRuns - 1          \* one run is followed
    /\ chunk_size \in (0 - MaxChunk)..0
    /\ config \in ConfigFiles
    /\ sourcesArg = None
    /\ pc = "idle"
    /\ run = RunIdle
    /\ pool = << >>
    /\ rs = RsIdle
    /\ nz = NzIdle

ChunkSpec == ChunkInit /\ [][Next]_vars

FetchSpec == FetchInit /\ [][FetchNext]_vars

\* calls of _clean_domain
CleanInit == FetchInit

CleanNext ==
    \/ CleanBare
    \/ CleanWildcard
    \/ CleanPrefixed
    \/ CleanDone

CleanSpec == CleanInit /\ [][CleanNext]_vars

-----------------------------------------------------------------------------
(* Properties of a run of update() *)

\* the task of pool.map for a pending source
TaskOf(url) == pool[CHOOSE i \in DOMAIN pool : pool[i].url = url]

\* the domains an active source reports in this run: the result of its fetch
\* when it was fetched and the fetch succeeded, its cache entry when the
\* cache was used
ReportedBy(src) ==
    IF src \in Range(run.pending)
    THEN IF TaskOf(src.url).success THEN Range(TaskOf(src.url).domains) ELSE {}
    ELSE Range(run.cache[src.url].domains)

ReportedNow == UNION {ReportedBy(src) : src \in Range(run.active)}

Candidates == ReportedNow \ run.existing

Reporters(d) == {src \in Range(run.active) : d \in ReportedBy(src)}

\* score(d) = max over the sources reporting d of weight * trust
ScoreOf(d) == MaxOf({src.weight * src.trust : src \in Reporters(d)})

\* d1 comes before d2: a higher score, or the same score and a smaller name
Precedes(d1, d2) ==
    \/ ScoreOf(d1) > ScoreOf(d2)
    \/ ScoreOf(d1) = ScoreOf(d2) /\ LexLess(d1, d2)

\* the ranking of the run is over: the run returned early, or went on to the
\* report and the ledger
AfterRanking ==
    \/ pc \in {"report", "status"}
    \/ pc = "idle" /\ run.outcome \in {"unchanged", "completed"}

\* C1: once a run with chunk_size = N has ranked its candidates C (reported
\* by an active source, not in the normalized existing list), the domains it
\* adds are min(N, |C|) distinct elements of C, and every candidate that
\* precedes an added one (higher score, or equal score and smaller name) is
\* added too; the merged list gains exactly these domains.
C1_BatchSelection ==
    AfterRanking =>
        /\ Len(run.new_domains) = Min(chunk_size, Cardinality(Candidates))
        /\ Cardinality(Range(run.new_domains)) = Len(run.new_domains)
        /\ Range(run.new_domains) \subseteq Candidates
        /\ \A d2 \in Range(run.new_domains) : \A d1 \in Candidates :
               Precedes(d1, d2) => d1 \in Range(run.new_domains)
        /\ \A i, j \in DOMAIN run.new_domains :
               i < j => Precedes(run.new_domains[i], run.new_domains[j])
        /\ run.outcome # "unchanged" =>
               Range(run.merged) \ run.existing = Range(run.new_domains)

\* a run cut its candidates short, and the score decided: a candidate with a
\* smaller name and a lower score was left out
C1_ScoreDecides ==
    /\ pc = "report"
    /\ Len(run.new_domains) = chunk_size
    /\ \E d1 \in Range(run.new_domains) : \E d2 \in Candidates \ Range(run.new_domains) :
           LexLess(d2, d1) /\ ScoreOf(d2) < ScoreOf(d1)

\* the domains the list file holds, as update() reads them
Listed(file) == ReadDest(file).existing

\* C2: after a run, the domains of the list are the normalized domains it
\* held before the run together with the domains added by the run: none is
\* lost, and none appears that was neither there nor reported by an active
\* source.
C2_MergeIsUnion ==
    AfterRanking =>
        /\ Listed(destFile) = run.existing \cup Range(run.new_domains)
        /\ Range(run.new_domains) \subseteq ReportedNow

\* a line of a list file: not empty
RECURSIVE Ascending(_)
Ascending(lines) ==
    \/ Len(lines) <= 1
    \/ LexLess(lines[1], lines[2]) /\ Ascending(Tail(lines))

\* a text of lines that each end with a line feed: none is empty, and each
\* is greater than the one before it
CanonicalFormat(text) ==
    /\ text # << >>
    /\ text[Len(text)] = 10
    /\ \A i \in 1..(Len(text) - 1) : ~(text[i] = 10 /\ text[i + 1] = 10)
    /\ text[1] # 10
    /\ Ascending(SplitOn(SubSeq(text, 1, Len(text) - 1), 10))

\* C3: after a run that had a configured source, whatever the list file held
\* before, the file holds its lines in strictly ascending order (so none
\* twice), none of them blank, and ends with a newline.
C3_CanonicalFile ==
    (pc = "idle" /\ run.outcome \in {"unchanged", "completed"} /\ ~IsNone(destFile))
        => CanonicalFormat(Get(destFile))

\* the cache is used for an active source: it is not in pending_fetch
UsesCacheOf(src) == src \notin Range(run.pending)

\* fetched_at + max(1, update_interval_days) days > now
WithinInterval(src, e) ==
    /\ ~IsNone(e.fetched_at)
    /\ Get(e.fetched_at) + Max(1, src.update_interval_days) * TicksPerDay > run.now

\* an entry is fresh: its status is not "error", its fetched_at is a
\* timestamp and lies within the interval
FreshUnlessError(src) ==
    /\ src.url \in DOMAIN run.loaded
    /\ run.loaded[src.url].status # "error"
    /\ WithinInterval(src, run.loaded[src.url])

\* an entry is fresh: its status is "ok" and its fetched_at lies within the
\* interval
FreshOnlyIfOk(src) ==
    /\ src.url \in DOMAIN run.loaded
    /\ run.loaded[src.url].status = "ok"
    /\ WithinInterval(src, run.loaded[src.url])

\* C4: a run uses the cache for an active source exactly when the source has
\* an entry whose status is not `error` and whose fetched_at is a timestamp
\* with fetched_at + max(1, update_interval_days) days > now; an `error`
\* entry, a missing entry and an entry without fetched_at are never fresh.
C4_FreshnessRule ==
    \A src \in Range(run.active) : UsesCacheOf(src) <=> FreshUnlessError(src)

\* C4 as the specification states it: the cache is used exactly when the
\* entry's status is `ok` and fetched_at + max(1, update_interval_days) days
\* > now.
C4_FreshOnlyWithStatusOk ==
    \A src \in Range(run.active) : UsesCacheOf(src) <=> FreshOnlyIfOk(src)

\* one run meets an `ok` entry within its interval, which it uses, and an
\* `ok` entry past its interval, which it fetches again
C4_FreshAndExpired ==
    /\ \E src \in Range(run.active) :
           /\ src.url \in DOMAIN run.loaded /\ run.loaded[src.url].status = "ok"
           /\ WithinInterval(src, run.loaded[src.url]) /\ UsesCacheOf(src)
    /\ \E src \in Range(run.active) :
           /\ src.url \in DOMAIN run.loaded /\ run.loaded[src.url].status = "ok"
           /\ ~WithinInterval(src, run.loaded[src.url]) /\ ~UsesCacheOf(src)

\* the reverse index and the set of fetched domains are built
Indexed == pc \in {"rank", "report", "status"} \/ AfterRanking

\* C5: an active source whose cache entry is fresh is never passed to
\* _fetch, and each of its cached domains enters the merge: it is a fetched
\* domain, the source is one of its holders, and it is left out of the
\* merged list only when the batch is full.
C5_CacheReuse ==
    \A src \in Range(run.active) :
        FreshUnlessError(src) =>
            /\ src.url \notin run.passed
            /\ \A i \in DOMAIN pool : pool[i].url # src.url
            /\ Indexed =>
                   \A d \in Range(run.loaded[src.url].domains) :
                       /\ d \in run.fetched
                       /\ src.url \in Range(run.domain_sources[d])
            /\ (AfterRanking /\ run.outcome # "unchanged") =>
                   \A d \in Range(run.loaded[src.url].domains) :
                       d \in Range(run.merged) \/ Len(run.new_domains) = chunk_size

\* a run that fetched another source added a domain that only a fresh cache
\* entry holds
C5_CachedDomainAdded ==
    /\ pc = "report"
    /\ run.passed # {}
    /\ \E src \in Range(run.active) :
           /\ FreshUnlessError(src)
           /\ \E d \in Range(run.loaded[src.url].domains) :
                  d \in Range(run.new_domains) /\ Reporters(d) = {src}

\* the entry the cache held for a url when the run loaded it
Previous(url) == Lookup(run.loaded, url)

\* C6: for every source whose fetch result the run has taken, after a
\* success the entry is {domains = the fetched domains without duplicates,
\* fetched_at = now, last_success_at = now, status = ok}; after a failure it
\* is {fetched_at = now, status = error} with the domains and the
\* last_success_at the cache held before the run (none for a new source);
\* and the stored cache lists other domains for a url than before the run
\* only when the source was fetched with success.
C6_CacheUpdate ==
    /\ \A i \in DOMAIN pool :
           i < run.next =>
               /\ run.cache[pool[i].url].fetched_at = Some(run.now)
               /\ pool[i].success =>
                      /\ run.cache[pool[i].url].status = "ok"
                      /\ run.cache[pool[i].url].last_success_at = Some(run.now)
                      /\ Range(run.cache[pool[i].url].domains) = Range(pool[i].domains)
                      /\ Cardinality(Range(pool[i].domains))
                             = Len(run.cache[pool[i].url].domains)
               /\ ~pool[i].success =>
                      /\ run.cache[pool[i].url].status = "error"
                      /\ IsNone(Previous(pool[i].url)) =>
                             /\ run.cache[pool[i].url].domains = << >>
                             /\ IsNone(run.cache[pool[i].url].last_success_at)
                      /\ ~IsNone(Previous(pool[i].url)) =>
                             /\ run.cache[pool[i].url].domains
                                    = Get(Previous(pool[i].url)).domains
                             /\ run.cache[pool[i].url].last_success_at
                                    = Get(Previous(pool[i].url)).last_success_at
    /\ Indexed =>
           \A u \in DOMAIN run.loaded :
               Range(cacheFile[u].domains) # Range(run.loaded[u].domains) =>
                   \E i \in DOMAIN pool : pool[i].url = u /\ pool[i].success

\* the results of a run are in: one source failed and keeps the domains and
\* the last success of its entry, another succeeded
C6_FailureKeepsEntry ==
    /\ pc = "merge"
    /\ \E i \in DOMAIN pool :
           /\ ~pool[i].success
           /\ ~IsNone(Previous(pool[i].url))
           /\ Get(Previous(pool[i].url)).domains # << >>
           /\ ~IsNone(Get(Previous(pool[i].url)).last_success_at)
    /\ \E i \in DOMAIN pool : pool[i].success /\ pool[i].domains # << >>

\* a fetch of the run failed: _fetch returned the source as failed, or raised
SomeFetchFailed ==
    \E i \in DOMAIN pool : pool[i].state = "done" /\ (pool[i].raised \/ ~pool[i].success)

\* C7: a run in which a fetch failed still completes, merges the domains of
\* the sources that succeeded or were fresh in the cache, and writes a report
\* whose fetch_errors flag is true; and the report of a run has fetch_errors
\* true exactly when a fetch of that run failed.
C7_FailureReported ==
    (pc = "idle" /\ run.outcome \in {"unchanged", "completed", "aborted"}) =>
        /\ SomeFetchFailed =>
               /\ run.outcome = "completed"
               /\ "report" \in Range(run.writes)
               /\ Get(reportFile).fetch_errors
               /\ Range(run.new_domains) \subseteq ReportedNow
               /\ Len(run.new_domains) = Min(chunk_size, Cardinality(Candidates))
        /\ run.outcome = "completed" => (Get(reportFile).fetch_errors <=> SomeFetchFailed)

-----------------------------------------------------------------------------
(* Properties of a call of _read_source *)

\* an attempt that a further attempt may follow: a transport-level error, or
\* an HTTP error with one of the statuses 429, 500, 502, 503, 504
MayBeRetried(outcome) ==
    \/ outcome.kind \in {"URLError", "IncompleteRead"}
    \/ outcome.kind = "HTTPError" /\ outcome.code \in {429, 500, 502, 503, 504}

\* C8: a call of _read_source makes at most 3 attempts; every attempt that
\* another attempt follows ended with a transport-level error or an HTTP
\* error with a status in {429, 500, 502, 503, 504}; an HTTP error with any
\* other status is the last attempt and the call returns None; there is
\* one wait before each further attempt and none after the last attempt.
C8_RetryPolicy ==
    /\ Len(rs.trace) <= 3
    /\ \A i \in DOMAIN rs.trace :
           (i < Len(rs.trace) \/ rs.pc = "loop") => MayBeRetried(rs.trace[i])
    /\ \A i \in DOMAIN rs.trace :
           (rs.trace[i].kind = "HTTPError" /\ ~MayBeRetried(rs.trace[i])) =>
               /\ i = Len(rs.trace)
               /\ rs.pc = "returned" /\ IsNone(rs.result)
               /\ Len(rs.sleeps) = i - 1
    /\ rs.pc = "loop" => Len(rs.sleeps) = Len(rs.trace) /\ Len(rs.trace) < 3
    /\ rs.pc \in {"returned", "raised"} => Len(rs.sleeps) = Len(rs.trace) - 1
    /\ (rs.pc = "returned" /\ ~IsNone(rs.result)) => rs.trace[Len(rs.trace)] = Success

\* the third attempt of a call failed with a retryable status: the call
\* returned None after two waits
C8_ThirdAttemptFails ==
    /\ rs.pc = "returned" /\ IsNone(rs.result)
    /\ Len(rs.trace) = 3 /\ Len(rs.sleeps) = 2
    /\ rs.trace[3].kind = "HTTPError" /\ rs.trace[3].code = 503
    /\ rs.trace[1].kind = "URLError"

\* a numeric Retry-After header
Numeric(retry_after) == retry_after.present /\ retry_after.text = "number"

\* the exponential backoff before the wait number i: 1 for the first, twice
\* the previous wait after it
Backoff(i) == IF i = 1 THEN 1 ELSE 2 * rs.sleeps[i - 1]

\* C9: the wait after an attempt that failed with a retryable HTTP status
\* and a numeric Retry-After value R is at least R and at least the current
\* exponential backoff (1 for the first retry); when the first attempt
\* failed so and the next succeeds, there are 2 attempts and one wait.
C9_RetryAfterHonoured ==
    /\ \A i \in DOMAIN rs.sleeps :
           /\ rs.sleeps[i] >= Backoff(i)
           /\ (rs.trace[i].kind = "HTTPError" /\ Numeric(rs.trace[i].retry_after)) =>
                  rs.sleeps[i] >= rs.trace[i].retry_after.value
    /\ (/\ rs.pc = "returned" /\ Len(rs.trace) >= 2
        /\ rs.trace[1].kind = "HTTPError" /\ rs.trace[2] = Success) =>
           Len(rs.trace) = 2 /\ Len(rs.sleeps) = 1

\* a 429 with Retry-After: 3, then a success: two attempts, one wait of 3
C9_WaitsForRetryAfter ==
    /\ rs.pc = "returned" /\ ~IsNone(rs.result)
    /\ Len(rs.trace) = 2
    /\ rs.trace[1].kind = "HTTPError" /\ rs.trace[1].code = 429
    /\ Numeric(rs.trace[1].retry_after) /\ rs.trace[1].retry_after.value = 3
    /\ rs.sleeps = <<3>>

\* C10: whatever the attempts of a call end with (a success, an HTTP error,
\* a connection reset, a timeout, an incomplete read, a URLError),
\* _read_source returns the body or None: no exception leaves it.
C10_NeverRaises == rs.pc # "raised"

-----------------------------------------------------------------------------
(* Properties of the SLA, the report and the ledger *)

\* last_success_at + sla_days days < now, for a known last success
Overdue(src, last_success) ==
    Get(last_success) + Get(src.sla_days) * TicksPerDay < run.now

\* the last success of an entry: its last_success_at, or, when it has none
\* and its status is "ok", its fetched_at
LastSuccessOrOkFetch(e) ==
    IF ~IsNone(e.last_success_at) THEN e.last_success_at
    ELSE IF e.status = "ok" THEN e.fetched_at
    ELSE None

\* the SLA is missed: sla_days is configured, and there is no entry, or no
\* last success (nor, for an "ok" entry, a fetched_at), or it is overdue
MissedWithFallback(src, entry) ==
    /\ ~IsNone(src.sla_days)
    /\ \/ IsNone(entry)
       \/ IsNone(LastSuccessOrOkFetch(Get(entry)))
       \/ Overdue(src, LastSuccessOrOkFetch(Get(entry)))

\* the SLA is missed: sla_days is configured, and last_success_at is
\* unknown or overdue
MissedByLastSuccess(src, entry) ==
    /\ ~IsNone(src.sla_days)
    /\ \/ IsNone(entry)
       \/ IsNone(Get(entry).last_success_at)
       \/ Overdue(src, Get(entry).last_success_at)

\* the report of the run is written, and the ledger not yet
ReportWritten == pc = "status"

\* C11: a source has missed its SLA exactly when sla_days is configured and
\* its last success is unknown or last success + sla_days days < now, where
\* the last success is last_success_at or, for an `ok` entry without it,
\* fetched_at; a source without sla_days never misses.  Seen in the
\* sources a run skips and in sla_breached of the report's source_health.
C11_SlaRule ==
    /\ \A src \in Range(run.configured) :
           src \in Range(run.skipped) <=>
               (src.auto_disable_on_sla /\ MissedWithFallback(src, Previous(src.url)))
    /\ ReportWritten =>
           \A i \in DOMAIN run.configured :
               Get(reportFile).source_health[i].sla_breached
                   <=> MissedWithFallback(run.configured[i],
                                          Lookup(run.cache, run.configured[i].url))

\* C11 as the specification states it: missed exactly when sla_days is
\* configured and last_success_at is unknown or last_success_at + sla_days
\* days < now.
C11_SlaByLastSuccessOnly ==
    /\ \A src \in Range(run.configured) :
           src \in Range(run.skipped) <=>
               (src.auto_disable_on_sla /\ MissedByLastSuccess(src, Previous(src.url)))
    /\ ReportWritten =>
           \A i \in DOMAIN run.configured :
               Get(reportFile).source_health[i].sla_breached
                   <=> MissedByLastSuccess(run.configured[i],
                                           Lookup(run.cache, run.configured[i].url))

\* a report shows a source with sla_days whose known last_success_at is
\* overdue as breached
C11_OverdueIsBreached ==
    /\ ReportWritten
    /\ \E i \in DOMAIN run.configured :
           /\ Get(reportFile).source_health[i].sla_breached
           /\ run.configured[i].url \in DOMAIN run.cache
           /\ ~IsNone(run.cache[run.configured[i].url].last_success_at)
           /\ Overdue(run.configured[i], run.cache[run.configured[i].url].last_success_at)

\* the run is over
RunOver == pc = "idle" /\ run.outcome \in {"unchanged", "completed", "aborted"}

\* the report names the source among its skipped_sources, with the reason
ReportedSkipped(src) ==
    /\ "report" \in Range(run.writes)
    /\ \E i \in DOMAIN Get(reportFile).skipped_sources :
           /\ Get(reportFile).skipped_sources[i].url = src.url
           /\ Get(reportFile).skipped_sources[i].reason = "sla_missed"

\* C12: in any run, a source with auto_disable_on_sla that has missed its
\* SLA gets no fetch, holds no domain of the merge (its cache entry is not
\* read, fresh or not), and the run writes a report that names it in
\* skipped_sources with reason sla_missed; a source without
\* auto_disable_on_sla is never skipped.
C12_SlaAutoDisable ==
    \A src \in Range(run.configured) :
        /\ (src.auto_disable_on_sla /\ MissedWithFallback(src, Previous(src.url))) =>
               /\ src.url \notin run.passed
               /\ \A i \in DOMAIN pool : pool[i].url # src.url
               /\ \A i \in DOMAIN run.cached_results :
                      run.cached_results[i].url # src.url
               /\ \A d \in DOMAIN run.domain_sources :
                      src.url \notin Range(run.domain_sources[d])
               /\ RunOver => ReportedSkipped(src)
        /\ ~src.auto_disable_on_sla => src \notin Range(run.skipped)

\* the run returned: early, or after the report and the ledger
RunReturned == pc = "idle" /\ run.outcome \in {"unchanged", "completed"}

\* C13: when a run that had a configured source returns, every domain of
\* the normalized list that no source reported in the run is in
\* stale_candidates of a report written by the run, and its ledger status
\* is `stale`, also when the run added no domain and the list needed no
\* rewrite.
C13_StaleDetected ==
    RunReturned =>
        \A d \in run.existing \ ReportedNow :
            /\ "report" \in Range(run.writes)
            /\ d \in Range(Get(reportFile).stale_candidates)
            /\ "status" \in Range(run.writes)
            /\ d \in DOMAIN statusFile /\ statusFile[d].status = "stale"

\* the active sources in the order their domains are indexed: the sources
\* read from the cache, then the fetched ones, each in configuration order
IndexOrder ==
    LET cached(src) == UsesCacheOf(src) IN SelectSeq(run.active, cached) \o run.pending

\* the holders of a domain, from what each source reported
ExpectedHolders(d) ==
    LET reports(src) == d \in ReportedBy(src)
    IN  UrlsOf(SelectSeq(IndexOrder, reports))

\* the batch, from what each source reported
ExpectedAdded ==
    [i \in 1..Min(chunk_size, Cardinality(Candidates)) |->
        CHOOSE x \in Candidates :
            Cardinality({y \in Candidates : Precedes(y, x)}) = i - 1]

\* the cache entry of a url after the results, from the result of its fetch
ExpectedEntry(url) ==
    IF \A i \in DOMAIN pool : pool[i].url # url THEN run.loaded[url]
    ELSE IF TaskOf(url).success
    THEN Entry(_unique_preserve_order(TaskOf(url).domains), Some(run.now),
               Some(run.now), "ok")
    ELSE IF url \in DOMAIN run.loaded
    THEN Entry(run.loaded[url].domains, Some(run.now),
               run.loaded[url].last_success_at, "error")
    ELSE Entry(<< >>, Some(run.now), None, "error")

\* C14: the outcome of a run is a function of the configuration, the cache,
\* the list file and the result of each fetch, whatever the order in which
\* the parallel fetches started and completed: the batch `added` (elements
\* and order), the merged list and the list file, the cache and the
\* per-domain source index are what these inputs alone determine.
C14_OrderIndependent ==
    /\ Indexed =>
           /\ DOMAIN run.cache = DOMAIN run.loaded \cup {pool[i].url : i \in DOMAIN pool}
           /\ \A u \in DOMAIN run.cache : run.cache[u] = ExpectedEntry(u)
           /\ DOMAIN cacheFile = DOMAIN run.cache
           /\ \A u \in DOMAIN cacheFile :
                  cacheFile[u] = [ExpectedEntry(u) EXCEPT
                                      !.domains = _unique_preserve_order(@)]
           /\ DOMAIN run.domain_sources = ReportedNow
           /\ \A d \in ReportedNow : run.domain_sources[d] = ExpectedHolders(d)
    /\ AfterRanking => run.new_domains = ExpectedAdded
    /\ (AfterRanking /\ run.outcome # "unchanged") =>
           /\ run.merged = SortedStrings(run.existing \cup Range(ExpectedAdded))
           /\ "list" \in Range(run.writes) => destFile = Some(JoinLines(run.merged))

\* two fetches were in flight together and the one submitted second
\* completed first
C14_CompletedOutOfOrder ==
    /\ pc = "fetching"
    /\ Len(pool) >= 2
    /\ pool[1].state = "running"
    /\ pool[2].state = "done" /\ pool[2].success /\ pool[2].domains # << >>

\* the place of a file in the order list, cache, report, ledger
WriteOrder(file) ==
    CHOOSE i \in 1..4 : <<"list", "cache", "report", "status">>[i] = file

\* C15: the files a run has written so far were written in the order list
\* file, source cache, report, ledger (the list file possibly not at all),
\* so no state of a run that writes the list has the cache, the report or
\* the ledger written and the list not yet.
C15_WriteOrder ==
    \A i, j \in DOMAIN run.writes :
        i < j => WriteOrder(run.writes[i]) < WriteOrder(run.writes[j])

\* C16: no step of any run changes the first_seen of a ledger record that
\* exists, nor drops the record: not when the domain turns stale, is
\* removed from the list, or comes back.
C16_FirstSeenWriteOnce ==
    [][\A d \in DOMAIN statusFile :
           /\ d \in DOMAIN statusFile'
           /\ statusFile'[d].first_seen = statusFile[d].first_seen]_vars

\* a domain that the ledger held as removed is back in the list and active,
\* seen now and first seen earlier
C16_RemovedCameBack ==
    \E d \in DOMAIN statusFile :
        /\ statusFile[d].status = "active"
        /\ ~IsNone(statusFile[d].removed_at)
        /\ statusFile[d].first_seen < statusFile[d].last_seen

\* the run has updated the ledger
LedgerUpdated == pc = "idle" /\ run.outcome = "completed"

\* C17: after a run that updates the ledger, every record has one of the
\* statuses active, stale, removed: active exactly when the domain is in
\* the merged list and an active source reported it in this run, stale
\* exactly when it is in the merged list and none did, removed exactly when
\* it is not in the merged list; and every domain of the merged list has a
\* record.
C17_StatusClassification ==
    LedgerUpdated =>
        /\ Range(run.merged) \subseteq DOMAIN statusFile
        /\ \A d \in DOMAIN statusFile :
               /\ statusFile[d].status \in {"active", "stale", "removed"}
               /\ statusFile[d].status = "active"
                      <=> (d \in Range(run.merged) /\ Reporters(d) # {})
               /\ statusFile[d].status = "stale"
                      <=> (d \in Range(run.merged) /\ Reporters(d) = {})
               /\ statusFile[d].status = "removed" <=> d \notin Range(run.merged)

\* a ledger just updated holds a record that turned from active to stale,
\* an active one and a removed one
C17_AllThreeStatuses ==
    /\ LedgerUpdated
    /\ \E d \in DOMAIN statusFile :
           /\ statusFile[d].status = "stale"
           /\ ~IsNone(statusFile[d].sources)
    /\ \E d \in DOMAIN statusFile : statusFile[d].status = "active"
    /\ \E d \in DOMAIN statusFile : statusFile[d].status = "removed"

-----------------------------------------------------------------------------
(* Properties of the normalizer *)

\* C18: for every host prefix p of 0.0.0.0, 127.0.0.1, 255.255.255.255, ::,
\* ::1 and every domain d in normal form, _clean_domain returns d for
\* p + " " + d and for p + d, as it does for d itself and for "*." + d.
C18_PrefixStripped == nz.pc = "called" => nz.result = nz.d

\* the run has written the list file
ListWritten == "list" \in Range(run.writes)

\* C19: every entry a run writes to the list is a fixed point of the
\* normalizer, is no IPv4 or IPv6 literal, starts with no null-route prefix
\* and does not start with "*.", whatever the list file and the feeds held.
C19_FullyNormalized ==
    ListWritten =>
        \A e \in Range(run.merged) :
            /\ _clean_domain(e) = e
            /\ ~ip_address(e)
            /\ \A i \in DOMAIN _HOST_PREFIXES : ~StartsWith(e, _HOST_PREFIXES[i])
            /\ ~StartsWith(e, <<42, 46>>)

\* the urls of the sources of this installation that are not enabled: of the
\* sources given when sources are given, else of the configuration file
DisabledIn(srcs) == {srcs[i].url : i \in {j \in DOMAIN srcs : ~srcs[j].enabled}}

DisabledUrls ==
    IF IsNone(sourcesArg) THEN DisabledIn(_load_sources(config))
    ELSE DisabledIn([i \in DOMAIN Get(sourcesArg) |-> FromArgument(Get(sourcesArg)[i])])

\* C20: however update is invoked (sources of the configuration file, or
\* sources passed in), a source that is not enabled is never fetched (it has
\* no task in the pool), holds no cached or fetched domains of the merge,
\* and gets no cache entry from the run.
C20_OnlyEnabled ==
    \A u \in DisabledUrls :
        /\ \A i \in DOMAIN pool : pool[i].url # u
        /\ \A i \in DOMAIN run.cached_results : run.cached_results[i].url # u
        /\ u \notin DOMAIN cacheFile

-----------------------------------------------------------------------------
(* Properties of sequences of runs *)

\* C21: at every moment of a run at most MAX_PARALLEL_FETCHES fetches are in
\* flight, however many sources are pending, and no step taken while a fetch
\* is in flight writes the cache, the list, the report or the ledger.
C21_BoundedPool ==
    /\ [](Cardinality(Running) <= MAX_PARALLEL_FETCHES)
    /\ [][Running # {} =>
            UNCHANGED <<cacheFile, destFile, reportFile, statusFile>>]_vars

\* five sources are pending and four fetches are in flight at once
C21_FourInFlight ==
    /\ Len(run.pending) = 5
    /\ Cardinality(Running) = MAX_PARALLEL_FETCHES
    /\ \E i \in DOMAIN pool : pool[i].state = "queued"

\* the cache entry the run loaded for the source has status "error"
FailedBefore(src) ==
    ~IsNone(Previous(src.url)) /\ Get(Previous(src.url)).status = "error"

\* C22: a source whose cache entry has status `error` is fetched in the next
\* run in which it is configured and not SLA-skipped, however little time
\* has passed since the failure: when the run is over, its fetch was started.
C22_FailedRetried ==
    RunOver =>
        \A i \in DOMAIN run.active :
            FailedBefore(run.active[i]) => run.active[i].url \in run.passed

\* C23: in every report a run writes, stale_candidates holds every domain of
\* the normalized list that no active source reported in the run, and no
\* other domain, however many there are.
C23_StaleExact ==
    ReportWritten =>
        Range(Get(reportFile).stale_candidates) = run.existing \ ReportedNow

\* the names in the sources of a ledger record (none when the key is absent)
RecordedSources(rec) == IF IsNone(rec.sources) THEN {} ELSE Range(Get(rec.sources))

\* C24: after a run that updates the ledger, the sources of the record of
\* every domain of the merged list are exactly the names of the active
\* sources that reported the domain in the run: none for a stale domain.
C24_SourcesAreReporters ==
    LedgerUpdated =>
        \A d \in Range(run.merged) :
            RecordedSources(statusFile[d]) = {src.name : src \in Reporters(d)}

\* every active source yields in this run, from a fresh cache entry or by a
\* successful fetch, the domains its cache entry recorded with status "ok"
SameYield ==
    \A src \in Range(run.active) :
        /\ ~IsNone(Previous(src.url))
        /\ Get(Previous(src.url)).status = "ok"
        /\ src \in Range(run.pending) => TaskOf(src.url).success
        /\ ReportedBy(src) = Range(Get(Previous(src.url)).domains)

\* C25: in a run with chunk_size = N >= 1 that follows a run that went
\* through to its report, with the active sources yielding the domain set
\* D they yielded before, the ranking step adds exactly min(N, number of
\* domains of D not in the list), none before a candidate that outranks
\* it, and once D is in the list it adds nothing and leaves the list file
\* as it is.
C25_ChunkedConvergence ==
    [][(pc = "rank" /\ ~IsNone(reportFile) /\ chunk_size >= 1 /\ SameYield) =>
          /\ Len(run'.new_domains) = Min(chunk_size, Cardinality(Candidates))
          /\ \A d \in Range(run'.new_domains), c \in Candidates :
                 Precedes(c, d) => c \in Range(run'.new_domains)
          /\ Candidates = {} => destFile' = destFile]_vars

\* the cache entry of a url as a run reads it from the file, its domains
\* without repetitions
EntryRead(file, url) ==
    IF url \notin DOMAIN file THEN None
    ELSE Some([_load_source_cache(file)[url]
                  EXCEPT !.domains = _unique_preserve_order(@)])

\* C26: no step changes the cache entry (as a run reads it: present or not,
\* domains, fetched_at, last_success_at, status) of a source the run has
\* skipped for a missed SLA, no fetch of it is in the pool, and the next run,
\* at the same or a later time, skips it again.
C26_SlaSkipAbsorbing ==
    [][\A src \in Range(run.skipped) :
          /\ EntryRead(cacheFile', src.url) = EntryRead(cacheFile, src.url)
          /\ \A i \in DOMAIN pool' : pool'[i].url # src.url
          /\ src \in Range(run'.skipped)]_vars

\* a second run, later than the first, skips a source again; the cache was
\* stored in between and holds an entry of the source
C26_SkippedAgain ==
    /\ runs = 2 /\ pc = "idle" /\ run.outcome = "completed"
    /\ run.now > 0
    /\ \E src \in Range(run.skipped) : src.url \in DOMAIN cacheFile

\* C27: in a run, every configured (enabled) source that has no cache entry
\* is put in pending_fetch, so that a fetch of it is attempted, whatever
\* its sla_days and auto_disable_on_sla.
C27_FirstFetch ==
    run.outcome \notin {"none", "no_sources"} =>
        \A src \in Range(run.configured) :
            IsNone(Previous(src.url)) => src \in Range(run.pending)

C29_RemovedAtConsistent ==
    [][/\ \A d \in DOMAIN statusFile' :
              ~IsNone(statusFile'[d].removed_at) <=> statusFile'[d].status = "removed"
       /\ \A d \in DOMAIN statusFile :
              (statusFile[d].status = "removed" /\ statusFile'[d].status = "removed")
                  => statusFile'[d].removed_at = statusFile[d].removed_at]_vars

\* C30: the number of domains a run adds is at most max(0, chunk_size): none
\* with a chunk size of zero or less, however many candidates there are.
C30_NonPositiveChunk ==
    AfterRanking => Len(run.new_domains) <= Max(0, chunk_size)

====
